---- MODULE Spec2Model ----
(***************************************************************************)
(* A model of package orchestra: the Player interface and the Stage that   *)
(* sets up, plays and cleans a named group of players (src/stage.go).      *)
(*                                                                         *)
(* One caller works on the stages "Root" and "Sub" with Add and drives     *)
(* Root with Setup, Play and Clean, in any order, one operation at a time: *)
(* an Add may come before, between or after the calls, may give a name a   *)
(* second player and may give a player a second name or a second stage.    *)
(* "Sub" is a Stage used as a Player: once added to Root its methods are   *)
(* invoked by Root's methods.  The leaves are arbitrary implementations of *)
(* Player: each Setup and Play of a leaf returns nil or an error, chosen   *)
(* when it returns.  Every method of a Stage is split at the points where  *)
(* it calls into a player or where a goroutine it started may run, so that *)
(* the iteration orders of the map and the interleavings of the goroutines *)
(* of Play and Clean are all explored.  A panic on the caller's goroutine  *)
(* stops everything; a panic in a goroutine of Play unwinds that goroutine *)
(* and ends the program some time later, the other goroutines running on   *)
(* until then.  Spec is the nested arrangement (Root over leaves and Sub,  *)
(* Sub over leaves), SpecFlat the flat one (Root over up to three names),  *)
(* SpecLive the flat one with fair scheduling.                             *)
(***************************************************************************)
EXTENDS FiniteSets, Integers, Sequences, TLC

\* Bound of the exploration: the number of operations (Add, Setup, Play,
\* Clean) the caller performs.
MaxOps == 5

Root == "Root"
Sub == "Sub"
Stages == {Root, Sub}
Leaves == {"p1", "p2", "p3"}
Players == Leaves \cup {Sub}
Names == {"a", "b", "c"}
Methods == {"setup", "play", "clean"}

\* Values of type error.  Nil is the nil error; NoCall stands for "this
\* method has not returned anything" in the history variables.
Nil == [type |-> "nil"]
NoCall == [type |-> "none"]
PlayerErr(p, m) == [type |-> "err", by |-> p, in |-> m]
ErrSetup(name, e) == [type |-> "ErrSetup", Player |-> name, Err |-> e]
ErrPlay(m) == [type |-> "ErrPlay", Players |-> m]
EmptyMap == [n \in {} |-> Nil]

VARIABLES
  players,    \* players[s]: the map s.players, name -> player
  beenSetup,  \* beenSetup[s]: the field s.beenSetup
  fr,         \* fr[s]: the local variables of the method running on stage s
  running,    \* running[p][m]: invocations of leaf p's m that are in progress
  calls,      \* calls[p][m]: invocations of p.m since the caller's last call
  setupOk,    \* setupOk[p]: Setups of p that returned nil since that call
  setupRet,   \* setupRet[p]: what p.Setup returned in its stage's last Setup
  playRet,    \* playRet[p]: what p.Play returned since the caller's last call
  gotCtx,     \* gotCtx[p]: the context p.Play got since the caller's last call
  cancelled,  \* the context of the current Play has been cancelled
  nops,       \* number of operations the caller has performed
  lateAdd,    \* an Add was made after Setup had been called
  nSetup,     \* nSetup[s]: number of times s.Setup has been called
  phase,      \* phase[s]: created / failed / ready / played
  cleaned,    \* players with Clean invoked since their last Setup was invoked
  replaced,   \* players an Add has overwritten and no Add has registered since
  proc        \* the program: up, dying (a goroutine has panicked), exited

vars == <<players, beenSetup, fr, running, calls, setupOk, setupRet, playRet,
          gotCtx, cancelled, nops, lateAdd, nSetup, phase, cleaned, replaced,
          proc>>

NoCtx == [id |-> 0]
NoTask == [pc |-> "none", player |-> "-", e |-> Nil]

\* The frame of a stage on which no method is running.
Idle ==
  [op |-> "idle", pc |-> "-", todo |-> {}, cur |-> "-", good |-> <<>>,
   i |-> 0, err |-> Nil, faulty |-> "-", task |-> [n \in {} |-> NoTask],
   echan |-> <<>>, cap |-> 0, closed |-> FALSE, wg |-> 0, ctx |-> NoCtx,
   ret |-> NoCall]

\* Nothing runs any more: the caller's own goroutine has panicked in
\* Root's Play, or the program has exited after the panic of a goroutine.
Terminated == fr[Root].pc = "panic" \/ proc = "exited"

RegNames(s) == DOMAIN players[s]
Registered(s) == {players[s][n] : n \in RegNames(s)}
ZeroCalls == [p \in Players |-> [m \in Methods |-> 0]]

\* NewStage: an empty map of players, beenSetup false.
NewStage == [players |-> EmptyMap, beenSetup |-> FALSE]

Init ==
  /\ players = [s \in Stages |-> NewStage.players]
  /\ beenSetup = [s \in Stages |-> NewStage.beenSetup]
  /\ fr = [s \in Stages |-> Idle]
  /\ running = [p \in Leaves |-> [m \in Methods |-> 0]]
  /\ calls = ZeroCalls
  /\ setupOk = [p \in Players |-> 0]
  /\ setupRet = [p \in Players |-> NoCall]
  /\ playRet = [p \in Players |-> NoCall]
  /\ gotCtx = [p \in Players |-> NoCtx]
  /\ cancelled = FALSE
  /\ nops = 0
  /\ lateAdd = FALSE
  /\ nSetup = [s \in Stages |-> 0]
  /\ phase = [s \in Stages |-> "created"]
  /\ cleaned = {}
  /\ replaced = {}
  /\ proc = "up"

\* Mutant of MapPut: a name that is taken keeps its entry.
MapPutKeepFirst(m, name, p) ==
  [n \in DOMAIN m \cup {name} |-> IF n \in DOMAIN m THEN m[n] ELSE p]

\* s.players[name] = p
MapPut(m, name, p) ==
  [n \in DOMAIN m \cup {name} |-> IF n = name THEN p ELSE m[n]]

\* Stage.Add: s.players[name] = p.  No other field of a stage changes.
Add(s, name, p) ==
  /\ players' = [players EXCEPT ![s] = MapPut(@, name, p)]
  /\ UNCHANGED beenSetup

(***************************************************************************)
(* Calls into a player.  A leaf only records that the method is in         *)
(* progress; a Stage used as a player starts running the method.           *)
(***************************************************************************)

\* Entry of Stage.Setup: the locals err, good, faulty and the range loop
\* over s.players, which visits every name once in an order of its own.
SetupEnter(s) ==
  [Idle EXCEPT !.op = "setup", !.pc = "loop", !.todo = RegNames(s), !.i = 1]

\* Mutant of PlayEnter: the beenSetup check is missing.
PlayEnterUnchecked(s, c) ==
  [Idle EXCEPT !.op = "play", !.pc = "spawn", !.todo = RegNames(s),
               !.task = [n \in RegNames(s) |-> NoTask],
               !.wg = Cardinality(RegNames(s)),
               !.cap = Cardinality(RegNames(s)), !.ctx = c]

\* Mutant of PlayEnter: a stage that has not been set up makes Play return
\* an error instead of panicking.
PlayEnterReturnsError(s, c) ==
  IF ~beenSetup[s]
  THEN [Idle EXCEPT !.op = "play", !.pc = "return",
                    !.ret = ErrPlay(EmptyMap)]
  ELSE [Idle EXCEPT !.op = "play", !.pc = "spawn", !.todo = RegNames(s),
                    !.task = [n \in RegNames(s) |-> NoTask],
                    !.wg = Cardinality(RegNames(s)),
                    !.cap = Cardinality(RegNames(s)), !.ctx = c]

\* Mutant of PlayEnter: the channel is made without a buffer.
PlayEnterUnbuffered(s, c) ==
  IF ~beenSetup[s]
  THEN [Idle EXCEPT !.op = "play", !.pc = "panic"]
  ELSE [Idle EXCEPT !.op = "play", !.pc = "spawn", !.todo = RegNames(s),
                    !.task = [n \in RegNames(s) |-> NoTask],
                    !.wg = Cardinality(RegNames(s)),
                    !.cap = 0, !.ctx = c]

\* Entry of Stage.Play: the beenSetup check, the WaitGroup and the
\* buffered channel, both sized len(s.players).
PlayEnter(s, c) ==
  IF ~beenSetup[s]
  THEN [Idle EXCEPT !.op = "play", !.pc = "panic"]
  ELSE [Idle EXCEPT !.op = "play", !.pc = "spawn", !.todo = RegNames(s),
                    !.task = [n \in RegNames(s) |-> NoTask],
                    !.wg = Cardinality(RegNames(s)),
                    !.cap = Cardinality(RegNames(s)), !.ctx = c]

\* Mutant of CleanEnter: the WaitGroup counts one goroutine too few.
CleanEnterShortWg(s) ==
  [Idle EXCEPT !.op = "clean", !.pc = "spawn", !.todo = RegNames(s),
               !.task = [n \in RegNames(s) |-> NoTask],
               !.wg = Cardinality(RegNames(s)) - 1]

\* Entry of Stage.Clean: the WaitGroup sized len(s.players).
CleanEnter(s) ==
  [Idle EXCEPT !.op = "clean", !.pc = "spawn", !.todo = RegNames(s),
               !.task = [n \in RegNames(s) |-> NoTask],
               !.wg = Cardinality(RegNames(s))]

Enter(s, m, c) ==
  CASE m = "setup" -> SetupEnter(s)
    [] m = "play" -> PlayEnter(s, c)
    [] m = "clean" -> CleanEnter(s)

\* The history kept at the entry of s.Setup.
SetupRetAtEntry(s) ==
  [q \in Players |-> IF q \in Registered(s) THEN NoCall ELSE setupRet[q]]

\* Method m of player p is invoked with context c; F is fr as the invoking
\* step leaves it.
Invoke(F, p, m, c) ==
  /\ fr' = IF p \in Stages THEN [F EXCEPT ![p] = Enter(p, m, c)] ELSE F
  /\ running' = IF p \in Leaves THEN [running EXCEPT ![p][m] = @ + 1]
                ELSE running
  /\ calls' = [calls EXCEPT ![p][m] = @ + 1]
  /\ gotCtx' = IF m = "play" THEN [gotCtx EXCEPT ![p] = c] ELSE gotCtx
  /\ nSetup' = IF p \in Stages /\ m = "setup"
               THEN [nSetup EXCEPT ![p] = @ + 1] ELSE nSetup
  /\ setupRet' = IF p \in Stages /\ m = "setup" THEN SetupRetAtEntry(p)
                 ELSE setupRet
  /\ playRet' = playRet
  /\ setupOk' = setupOk
  /\ cleaned' = CASE m = "clean" -> cleaned \cup {p}
                  [] m = "setup" -> cleaned \ {p}
                  [] OTHER -> cleaned

\* What a leaf's method may return: Setup and Play of an arbitrary Player
\* return nil or an error of their own; Clean returns nothing.
LeafRet(p, m) == IF m = "clean" THEN {Nil} ELSE {Nil, PlayerErr(p, m)}

\* The set of values p.m can return now.
Returns(p, m) ==
  IF p \in Leaves
  THEN IF running[p][m] > 0 THEN LeafRet(p, m) ELSE {}
  ELSE IF fr[p].op = m /\ fr[p].pc = "return" THEN {fr[p].ret} ELSE {}

\* Method m of player p returns r; F is fr as the step that takes the
\* result leaves it.
Return(F, p, m, r) ==
  /\ fr' = IF p \in Stages THEN [F EXCEPT ![p] = Idle] ELSE F
  /\ running' = IF p \in Leaves THEN [running EXCEPT ![p][m] = @ - 1]
                ELSE running
  /\ setupRet' = IF m = "setup" THEN [setupRet EXCEPT ![p] = r] ELSE setupRet
  /\ playRet' = IF m = "play" THEN [playRet EXCEPT ![p] = r] ELSE playRet
  /\ setupOk' = IF m = "setup" /\ r = Nil THEN [setupOk EXCEPT ![p] = @ + 1]
                ELSE setupOk

(***************************************************************************)
(* Stage.Setup                                                          *)
(***************************************************************************)

\* for name, it := range s.players { err = it.Setup() ...
\* The loop of Setup; after it, if err != nil the rollback runs and ErrSetup
\* is returned, else the stage is marked and nil is returned.
SetupNext(s) ==
  /\ ~Terminated
  /\ fr[s].op = "setup" /\ fr[s].pc = "loop"
  /\ \E n \in fr[s].todo :
       Invoke([fr EXCEPT ![s].pc = "call", ![s].cur = n, ![s].todo = @ \ {n}],
              players[s][n], "setup", NoCtx)
  /\ UNCHANGED <<players, beenSetup, cancelled, nops, lateAdd, phase,
                 replaced, proc>>

\* Mutant of AfterPlayerSetup: the break leaves faulty unassigned.
AfterPlayerSetupNoName(f, it, r) ==
  IF r # Nil
  THEN [f EXCEPT !.err = r, !.pc = "after"]
  ELSE [f EXCEPT !.err = r, !.good = Append(@, it), !.pc = "loop"]

\* Mutant of AfterPlayerSetup: the player is appended to good before err is
\* tested, so the failing player is rolled back too.
AfterPlayerSetupAppendFirst(f, it, r) ==
  IF r # Nil
  THEN [f EXCEPT !.err = r, !.faulty = f.cur, !.good = Append(@, it),
                 !.pc = "after"]
  ELSE [f EXCEPT !.err = r, !.good = Append(@, it), !.pc = "loop"]

\* Mutant of AfterPlayerSetup: the break is missing, the loop goes on after
\* an error.
AfterPlayerSetupNoBreak(f, it, r) ==
  IF r # Nil
  THEN [f EXCEPT !.err = r, !.faulty = f.cur, !.pc = "loop"]
  ELSE [f EXCEPT !.err = r, !.good = Append(@, it), !.pc = "loop"]

\* The loop body after err = it.Setup() gave r: break with faulty = name, or
\* good = append(good, it).
AfterPlayerSetup(f, it, r) ==
  IF r # Nil
  THEN [f EXCEPT !.err = r, !.faulty = f.cur, !.pc = "after"]
  ELSE [f EXCEPT !.err = r, !.good = Append(@, it), !.pc = "loop"]

SetupReturned(s) ==
  /\ ~Terminated
  /\ fr[s].op = "setup" /\ fr[s].pc = "call"
  /\ LET it == players[s][fr[s].cur] IN
       \E r \in Returns(it, "setup") :
         Return([fr EXCEPT ![s] = AfterPlayerSetup(@, it, r)], it, "setup", r)
  /\ UNCHANGED <<players, beenSetup, calls, gotCtx, cancelled, nops, lateAdd,
                 nSetup, phase, cleaned, replaced, proc>>

\* The range loop is over: it was left by the break or it has visited every
\* name.
LoopOver(f) == f.pc = "after" \/ (f.pc = "loop" /\ f.todo = {})

\* Mutant of ToRollback: the rollback stops one player short.
ToRollbackButLast(f) == SubSeq(f.good, 1, Len(f.good) - 1)

\* The players the rollback cleans: for _, it := range good { it.Clean() }
ToRollback(f) == f.good

RollbackNext(s) ==
  /\ ~Terminated
  /\ fr[s].op = "setup" /\ LoopOver(fr[s]) /\ fr[s].err # Nil
  /\ fr[s].i <= Len(ToRollback(fr[s]))
  /\ Invoke([fr EXCEPT ![s].pc = "rbcall"], ToRollback(fr[s])[fr[s].i],
            "clean", NoCtx)
  /\ UNCHANGED <<players, beenSetup, cancelled, nops, lateAdd, phase,
                 replaced, proc>>

RollbackReturned(s) ==
  /\ ~Terminated
  /\ fr[s].op = "setup" /\ fr[s].pc = "rbcall"
  /\ LET it == ToRollback(fr[s])[fr[s].i] IN
       \E r \in Returns(it, "clean") :
         Return([fr EXCEPT ![s].pc = "after", ![s].i = @ + 1],
                it, "clean", r)
  /\ UNCHANGED <<players, beenSetup, calls, gotCtx, cancelled, nops, lateAdd,
                 nSetup, phase, cleaned, replaced, proc>>

\* Mutant of SetupError: the error of the failing player is dropped and
\* Setup returns nil after the rollback.
SetupErrorSwallowed(f) == Nil

\* return ErrSetup{Player: faulty, Err: err}
SetupError(f) == ErrSetup(f.faulty, f.err)

\* Mutant of LeaveSetup: a failing Setup clears the flag.
LeaveSetupReset(b) == FALSE

\* The value of s.beenSetup when Setup returns an error: not assigned.
LeaveSetup(b) == b

SetupFail(s) ==
  /\ ~Terminated
  /\ fr[s].op = "setup" /\ LoopOver(fr[s]) /\ fr[s].err # Nil
  /\ fr[s].i > Len(ToRollback(fr[s]))
  /\ fr' = [fr EXCEPT ![s].pc = "return", ![s].ret = SetupError(fr[s])]
  /\ beenSetup' = [beenSetup EXCEPT ![s] = LeaveSetup(@)]
  /\ phase' = [phase EXCEPT ![s] = "failed"]
  /\ UNCHANGED <<players, running, calls, setupOk, setupRet, playRet, gotCtx,
                 cancelled, nops, lateAdd, nSetup, cleaned, replaced, proc>>

\* Mutant of MarkSetup: the flag is left as it was.
MarkSetupKeep(b) == b

\* The value of s.beenSetup when the loop ended with err == nil.
MarkSetup(b) == TRUE

\* s.beenSetup = true; return nil
SetupDone(s) ==
  /\ ~Terminated
  /\ fr[s].op = "setup" /\ LoopOver(fr[s]) /\ fr[s].err = Nil
  /\ beenSetup' = [beenSetup EXCEPT ![s] = MarkSetup(@)]
  /\ fr' = [fr EXCEPT ![s].pc = "return", ![s].ret = Nil]
  /\ phase' = [phase EXCEPT ![s] = "ready"]
  /\ UNCHANGED <<players, running, calls, setupOk, setupRet, playRet, gotCtx,
                 cancelled, nops, lateAdd, nSetup, cleaned, replaced, proc>>

(***************************************************************************)
(* Stage.Play                                                              *)
(***************************************************************************)

\* for name, it := range s.players { go func(n, player) {...}(name, it) }
\* One iteration: a goroutine is created with the name and the player.
PlaySpawn(s) ==
  /\ ~Terminated
  /\ fr[s].op = "play" /\ fr[s].pc = "spawn"
  /\ \E n \in fr[s].todo :
       fr' = [fr EXCEPT ![s].todo = @ \ {n},
                        ![s].task[n] = [pc |-> "new", player |-> players[s][n],
                                        e |-> Nil]]
  /\ UNCHANGED <<players, beenSetup, running, calls, setupOk, setupRet,
                 playRet, gotCtx, cancelled, nops, lateAdd, nSetup, phase,
                 cleaned, replaced, proc>>

\* Mutant of TaskCtx: the goroutines hand a context of their own to the
\* players.
TaskCtxBackground(f) == NoCtx

\* The context a goroutine of Play hands to its player: the ctx of Play.
TaskCtx(f) == f.ctx

\* The goroutine of name n starts to run: e := player.Play(ctx)
PlayTaskStart(s, n) ==
  /\ ~Terminated
  /\ fr[s].op = "play" /\ n \in DOMAIN fr[s].task
  /\ fr[s].task[n].pc = "new"
  /\ Invoke([fr EXCEPT ![s].task[n].pc = "play"], fr[s].task[n].player, "play",
            TaskCtx(fr[s]))
  /\ UNCHANGED <<players, beenSetup, cancelled, nops, lateAdd, phase,
                 replaced, proc>>

\* player.Play(ctx) returned e in the goroutine of name n.
PlayTaskReturned(s, n) ==
  /\ ~Terminated
  /\ fr[s].op = "play" /\ n \in DOMAIN fr[s].task
  /\ fr[s].task[n].pc = "play"
  /\ \E e \in Returns(fr[s].task[n].player, "play") :
       Return([fr EXCEPT ![s].task[n].pc = "ret", ![s].task[n].e = e],
              fr[s].task[n].player, "play", e)
  /\ UNCHANGED <<players, beenSetup, calls, gotCtx, cancelled, nops, lateAdd,
                 nSetup, phase, cleaned, replaced, proc>>

\* if e != nil: the goroutine reports its error.
MustSend(t) == t.pc = "ret" /\ t.e # Nil

\* Mutant of MayFinish: the goroutine may be done before it has reported its
\* error.
MayFinishEarly(t) == t.pc = "ret" \/ t.pc = "sent"

\* The goroutine is through with its body and runs the deferred wg.Done().
MayFinish(t) == (t.pc = "ret" /\ t.e = Nil) \/ t.pc = "sent"

\* What the goroutine of name n puts on the channel.
Report(n, t) == [Name |-> n, Err |-> t.e]

\* echan <- struct{Name, Err}{n, e}: blocks while the buffer is full, panics
\* on a closed channel.
PlayTaskSend(s, n) ==
  /\ ~Terminated
  /\ fr[s].op = "play" /\ n \in DOMAIN fr[s].task
  /\ MustSend(fr[s].task[n])
  /\ IF fr[s].closed
     THEN fr' = [fr EXCEPT ![s].task[n].pc = "panic"]
     ELSE /\ Len(fr[s].echan) < fr[s].cap
          /\ fr' = [fr EXCEPT ![s].task[n].pc = "sent",
                              ![s].echan = Append(@, Report(n, fr[s].task[n]))]
  /\ UNCHANGED <<players, beenSetup, running, calls, setupOk, setupRet,
                 playRet, gotCtx, cancelled, nops, lateAdd, nSetup, phase,
                 cleaned, replaced, proc>>

\* defer wg.Done()
PlayTaskDone(s, n) ==
  /\ ~Terminated
  /\ fr[s].op = "play" /\ n \in DOMAIN fr[s].task
  /\ MayFinish(fr[s].task[n])
  /\ fr' = [fr EXCEPT ![s].task[n].pc = "done", ![s].wg = @ - 1]
  /\ UNCHANGED <<players, beenSetup, running, calls, setupOk, setupRet,
                 playRet, gotCtx, cancelled, nops, lateAdd, nSetup, phase,
                 cleaned, replaced, proc>>

\* The goroutine t is in a panic: the Play of a nested stage that has not
\* been set up has panicked under it, or its send found the channel closed.
InPanic(t) ==
  \/ t.pc = "panic"
  \/ t.pc = "play" /\ t.player \in Stages /\ fr[t.player].pc = "panic"

\* The panic unwinds the goroutine of name n: the call of player.Play is
\* abandoned and the deferred wg.Done() runs; after that the runtime ends
\* the program, while the other goroutines go on until it has.
PlayTaskPanicked(s, n) ==
  /\ ~Terminated
  /\ fr[s].op = "play" /\ n \in DOMAIN fr[s].task
  /\ InPanic(fr[s].task[n])
  /\ fr' = [k \in Stages |->
              IF k = s
              THEN [fr[s] EXCEPT !.task[n].pc = "dead", !.wg = @ - 1]
              ELSE IF k = fr[s].task[n].player /\ fr[s].task[n].pc = "play"
                   THEN Idle ELSE fr[k]]
  /\ proc' = "dying"
  /\ UNCHANGED <<players, beenSetup, running, calls, setupOk, setupRet,
                 playRet, gotCtx, cancelled, nops, lateAdd, nSetup, phase,
                 cleaned, replaced>>

\* The runtime ends the program after the panic of a goroutine.
Exit ==
  /\ proc = "dying"
  /\ proc' = "exited"
  /\ UNCHANGED <<players, beenSetup, fr, running, calls, setupOk, setupRet,
                 playRet, gotCtx, cancelled, nops, lateAdd, nSetup, phase,
                 cleaned, replaced>>

\* Mutant of WaitOver: Play and Clean do not wait for their goroutines.
WaitOverEarly(f) == TRUE

\* wg.Wait() returns once the counter is zero.
WaitOver(f) == f.wg = 0

\* wg.Wait(); close(echan)
PlayWait(s) ==
  /\ ~Terminated
  /\ fr[s].op = "play" /\ fr[s].pc = "spawn" /\ fr[s].todo = {}
  /\ WaitOver(fr[s])
  /\ fr' = [fr EXCEPT ![s].pc = "collect", ![s].closed = TRUE]
  /\ UNCHANGED <<players, beenSetup, running, calls, setupOk, setupRet,
                 playRet, gotCtx, cancelled, nops, lateAdd, nSetup, phase,
                 cleaned, replaced, proc>>

\* Mutant of Collect: a fresh map is made for every error received, so only
\* the last one is kept.
CollectLast(ch, m) ==
  IF ch = <<>> THEN m
  ELSE MapPut(EmptyMap, ch[Len(ch)].Name, ch[Len(ch)].Err)

\* Mutant of Collect: the entries of a nested stage's ErrPlay are merged into
\* the map instead of being kept under the nested stage's name.
RECURSIVE CollectFlat(_, _)
CollectFlat(ch, m) ==
  IF ch = <<>> THEN m
  ELSE LET h == Head(ch) IN
       IF h.Err.type = "ErrPlay"
       THEN CollectFlat(Tail(ch),
                        [n \in DOMAIN m \cup DOMAIN h.Err.Players |->
                           IF n \in DOMAIN h.Err.Players
                           THEN h.Err.Players[n] ELSE m[n]])
       ELSE CollectFlat(Tail(ch), MapPut(m, h.Name, h.Err))

\* for e := range echan { ...; err.Players[e.Name] = e.Err }
RECURSIVE Collect(_, _)
Collect(ch, m) ==
  IF ch = <<>> THEN m
  ELSE Collect(Tail(ch), MapPut(m, Head(ch).Name, Head(ch).Err))

\* The value Play returns: nil when the channel held nothing, else *ErrPlay.
PlayResult(ch) == IF ch = <<>> THEN Nil ELSE ErrPlay(Collect(ch, EmptyMap))

PlayCollect(s) ==
  /\ ~Terminated
  /\ fr[s].op = "play" /\ fr[s].pc = "collect"
  /\ fr' = [fr EXCEPT ![s].pc = "return", ![s].ret = PlayResult(fr[s].echan)]
  /\ phase' = [phase EXCEPT ![s] = "played"]
  /\ UNCHANGED <<players, beenSetup, running, calls, setupOk, setupRet,
                 playRet, gotCtx, cancelled, nops, lateAdd, nSetup, cleaned,
                 replaced, proc>>

(***************************************************************************)
(* Stage.Clean                                                             *)
(***************************************************************************)

\* for _, it := range s.players { go func(player) {...}(it) }
CleanSpawn(s) ==
  /\ ~Terminated
  /\ fr[s].op = "clean" /\ fr[s].pc = "spawn"
  /\ \E n \in fr[s].todo :
       fr' = [fr EXCEPT ![s].todo = @ \ {n},
                        ![s].task[n] = [pc |-> "new", player |-> players[s][n],
                                        e |-> Nil]]
  /\ UNCHANGED <<players, beenSetup, running, calls, setupOk, setupRet,
                 playRet, gotCtx, cancelled, nops, lateAdd, nSetup, phase,
                 cleaned, replaced, proc>>

\* The goroutine of name n starts to run: player.Clean()
CleanTaskStart(s, n) ==
  /\ ~Terminated
  /\ fr[s].op = "clean" /\ n \in DOMAIN fr[s].task
  /\ fr[s].task[n].pc = "new"
  /\ Invoke([fr EXCEPT ![s].task[n].pc = "clean"], fr[s].task[n].player,
            "clean", NoCtx)
  /\ UNCHANGED <<players, beenSetup, cancelled, nops, lateAdd, phase,
                 replaced, proc>>

\* player.Clean() returned; the deferred wg.Done() runs.
CleanTaskDone(s, n) ==
  /\ ~Terminated
  /\ fr[s].op = "clean" /\ n \in DOMAIN fr[s].task
  /\ fr[s].task[n].pc = "clean"
  /\ \E r \in Returns(fr[s].task[n].player, "clean") :
       Return([fr EXCEPT ![s].task[n].pc = "done", ![s].wg = @ - 1],
              fr[s].task[n].player, "clean", r)
  /\ UNCHANGED <<players, beenSetup, calls, gotCtx, cancelled, nops, lateAdd,
                 nSetup, phase, cleaned, replaced, proc>>

\* wg.Wait(), then Clean returns.
CleanWait(s) ==
  /\ ~Terminated
  /\ fr[s].op = "clean" /\ fr[s].pc = "spawn" /\ fr[s].todo = {}
  /\ WaitOver(fr[s])
  /\ fr' = [fr EXCEPT ![s].pc = "return", ![s].ret = Nil]
  /\ UNCHANGED <<players, beenSetup, running, calls, setupOk, setupRet,
                 playRet, gotCtx, cancelled, nops, lateAdd, nSetup, phase,
                 cleaned, replaced, proc>>

(***************************************************************************)
(* The caller of Root                                                      *)
(***************************************************************************)

\* The caller calls method m of Root; a Play gets a context of its own.
Call(m) ==
  /\ ~Terminated
  /\ fr[Root].op = "idle"
  /\ nops < MaxOps
  /\ fr' = [fr EXCEPT ![Root] = Enter(Root, m, [id |-> nops + 1])]
  /\ calls' = ZeroCalls
  /\ setupOk' = [p \in Players |-> 0]
  /\ nops' = nops + 1
  /\ cancelled' = FALSE
  /\ nSetup' = IF m = "setup" THEN [nSetup EXCEPT ![Root] = @ + 1] ELSE nSetup
  /\ setupRet' = IF m = "setup" THEN SetupRetAtEntry(Root) ELSE setupRet
  /\ playRet' = [p \in Players |-> NoCall]
  /\ gotCtx' = [p \in Players |-> NoCtx]
  /\ UNCHANGED <<players, beenSetup, running, lateAdd, phase, cleaned,
                 replaced, proc>>

CallSetup == Call("setup")
CallPlay == Call("play")
CallClean == Call("clean")

\* The players that held a name and hold none once s.players[name] = p.
Overwritten(s, name, p) ==
  {q \in Players \ {p} :
     /\ name \in RegNames(s) /\ players[s][name] = q
     /\ \A t \in Stages, n \in Names :
          (n \in RegNames(t) /\ players[t][n] = q) => (t = s /\ n = name)}

\* The caller calls Add on stage s, between its calls of Root's methods.
CallAdd(s, name, p) ==
  /\ ~Terminated
  /\ fr[Root].op = "idle"
  /\ nops < MaxOps
  /\ Add(s, name, p)
  /\ nops' = nops + 1
  /\ lateAdd' = (lateAdd \/ nSetup[Root] > 0)
  /\ replaced' = (replaced \ {p}) \cup Overwritten(s, name, p)
  /\ UNCHANGED <<fr, running, calls, setupOk, setupRet, playRet, gotCtx,
                 cancelled, nSetup, phase, cleaned, proc>>

\* The method of Root returns to the caller.
CallerReturn ==
  /\ ~Terminated
  /\ fr[Root].pc = "return"
  /\ fr' = [fr EXCEPT ![Root] = Idle]
  /\ UNCHANGED <<players, beenSetup, running, calls, setupOk, setupRet,
                 playRet, gotCtx, cancelled, nops, lateAdd, nSetup, phase,
                 cleaned, replaced, proc>>

\* The caller cancels the context it gave to the Play in progress.
Cancel ==
  /\ ~Terminated
  /\ fr[Root].op = "play"
  /\ ~cancelled
  /\ cancelled' = TRUE
  /\ UNCHANGED <<players, beenSetup, fr, running, calls, setupOk, setupRet,
                 playRet, gotCtx, nops, lateAdd, nSetup, phase, cleaned,
                 replaced, proc>>

\* The steps of the caller's calls and of the methods they run.
Run ==
  \/ CallSetup
  \/ CallPlay
  \/ CallClean
  \/ CallerReturn
  \/ Cancel
  \/ \E s \in Stages : SetupNext(s)
  \/ \E s \in Stages : SetupReturned(s)
  \/ \E s \in Stages : RollbackNext(s)
  \/ \E s \in Stages : RollbackReturned(s)
  \/ \E s \in Stages : SetupFail(s)
  \/ \E s \in Stages : SetupDone(s)
  \/ \E s \in Stages : PlaySpawn(s)
  \/ \E s \in Stages, n \in Names : PlayTaskStart(s, n)
  \/ \E s \in Stages, n \in Names : PlayTaskReturned(s, n)
  \/ \E s \in Stages, n \in Names : PlayTaskSend(s, n)
  \/ \E s \in Stages, n \in Names : PlayTaskDone(s, n)
  \/ \E s \in Stages : PlayWait(s)
  \/ \E s \in Stages : PlayCollect(s)
  \/ \E s \in Stages : CleanSpawn(s)
  \/ \E s \in Stages, n \in Names : CleanTaskStart(s, n)
  \/ \E s \in Stages, n \in Names : CleanTaskDone(s, n)
  \/ \E s \in Stages : CleanWait(s)

\* The nested arrangement.  Root is offered the leaves p1 and p2 under the
\* name a, and the leaf p1 and the stage Sub under the name b; Sub is offered
\* the leaves p2 and p3 under each of the names b and c.  So a name can get
\* a second player, a leaf a second name, and p2 a place in both stages; the
\* stage Sub is offered in one place, so that one frame holds its calls.
Offered(s, n) ==
  IF s = Root
  THEN CASE n = "a" -> {"p1", "p2"} [] n = "b" -> {"p1", Sub} [] OTHER -> {}
  ELSE CASE n = "a" -> {} [] OTHER -> {"p2", "p3"}

Next ==
  \/ \E s \in Stages, n \in Names : \E p \in Offered(s, n) : CallAdd(s, n, p)
  \/ Run
  \/ \E s \in Stages, n \in Names : PlayTaskPanicked(s, n)
  \/ Exit

Spec == Init /\ [][Next]_vars

\* The flat arrangement: Root alone, offered two leaves under every name, so
\* that a name can get a second player, every leaf a second name, and the
\* three names three players.
OfferedFlat(n) ==
  CASE n = "a" -> {"p1", "p2"}
    [] n = "b" -> {"p2", "p3"}
    [] n = "c" -> {"p3", "p1"}

NextFlat ==
  \/ \E n \in Names : \E p \in OfferedFlat(n) : CallAdd(Root, n, p)
  \/ Run

SpecFlat == Init /\ [][NextFlat]_vars

\* The arrangement for progress: Root alone, offered two leaves under every
\* name, set up by the caller's first call and played by the calls after it.
LiveAdd == \E n \in Names, p \in {"p1", "p2"} : CallAdd(Root, n, p)

LiveCall ==
  \/ nSetup[Root] = 0 /\ CallSetup
  \/ nSetup[Root] > 0 /\ CallPlay

NextLive ==
  \/ LiveAdd
  \/ LiveCall
  \/ CallerReturn
  \/ SetupNext(Root)
  \/ SetupReturned(Root)
  \/ RollbackNext(Root)
  \/ RollbackReturned(Root)
  \/ SetupFail(Root)
  \/ SetupDone(Root)
  \/ PlaySpawn(Root)
  \/ \E n \in Names : PlayTaskStart(Root, n)
  \/ \E n \in Names : PlayTaskReturned(Root, n)
  \/ \E n \in Names : PlayTaskSend(Root, n)
  \/ \E n \in Names : PlayTaskDone(Root, n)
  \/ PlayWait(Root)
  \/ PlayCollect(Root)

\* The Go scheduler runs every goroutine that can run, and every player's
\* Play returns: each step of Play that stays possible is taken.
FairPlay ==
  /\ WF_vars(PlaySpawn(Root))
  /\ \A n \in Names : WF_vars(PlayTaskStart(Root, n))
  /\ \A n \in Names : WF_vars(PlayTaskReturned(Root, n))
  /\ \A n \in Names : WF_vars(PlayTaskSend(Root, n))
  /\ \A n \in Names : WF_vars(PlayTaskDone(Root, n))
  /\ WF_vars(PlayWait(Root))
  /\ WF_vars(PlayCollect(Root))

SpecLive == Init /\ [][NextLive]_vars /\ FairPlay

(***************************************************************************)
(* Properties                                                              *)
(***************************************************************************)

\* Method m of stage s has reached its return.
AtReturn(s, m) == fr[s].op = m /\ fr[s].pc = "return"

\* Player p has no method m in progress.
Finished(p, m) ==
  IF p \in Leaves THEN running[p][m] = 0 ELSE fr[p].op # m

IsErr(v) == v # Nil /\ v # NoCall

\* The number of names in ns under which stage s holds player p.
Held(s, ns, p) == Cardinality({n \in ns \cap RegNames(s) : players[s][n] = p})

\* The number of entries of the tree under Root that hold player p: the
\* entries of Root, and those of Sub when Root holds Sub.
Due(p) ==
  Held(Root, Names, p) +
    (IF p = Sub THEN 0 ELSE Held(Root, Names, Sub) * Held(Sub, Names, p))

\* C1: with the players added before Setup and Setup called once, Play is
\* invoked on a player only after that player's Setup returned nil: a player
\* whose Setup failed or was never called has no Play invoked on it.
C1_PlayOnlyAfterSetup ==
  (~lateAdd /\ nSetup[Root] <= 1) =>
    \A p \in Players : calls[p]["play"] > 0 => setupRet[p] = Nil

\* A leaf of the nested stage has had Play invoked after the one Setup.
C1_Witness ==
  /\ ~lateAdd /\ nSetup[Root] = 1
  /\ \E p \in Registered(Sub) : calls[p]["play"] > 0 /\ setupRet[p] = Nil

\* C2: when Setup returns an error, every entry visited has had its
\* player's Setup invoked once and no other entry has; every Setup that
\* returned nil in this call has been answered by one Clean of that player,
\* which has completed, and the failing Setup by none; so a player that was
\* not reached has had neither Setup nor Clean.
C2_RollbackOnFailure ==
  (AtReturn(Root, "setup") /\ fr[Root].ret # Nil) =>
    \A p \in Leaves :
      /\ calls[p]["setup"] = Held(Root, Names \ fr[Root].todo, p)
      /\ calls[p]["clean"] = setupOk[p]
      /\ setupOk[p] =
           calls[p]["setup"] -
             (IF players[Root][fr[Root].ret.Player] = p THEN 1 ELSE 0)
      /\ Finished(p, "setup") /\ Finished(p, "clean")

\* Setup returns an error with one player set up and cleaned, one failed and
\* one not reached.
C2_Witness ==
  /\ AtReturn(Root, "setup") /\ fr[Root].ret # Nil
  /\ \E p, q, r \in Registered(Root) :
       /\ setupOk[p] = 1 /\ calls[p]["clean"] = 1
       /\ calls[q]["setup"] = 1 /\ setupOk[q] = 0 /\ calls[q]["clean"] = 0
       /\ calls[r]["setup"] = 0 /\ calls[r]["clean"] = 0

\* The names of s whose player returned an error to its goroutine of Play.
FailedPlay(s) == {n \in RegNames(s) : fr[s].task[n].e # Nil}

\* The goroutine t is over: its player's Play returned and it ran to its
\* end, or it was unwound by a panic.
Over(t) == t.pc = "done" \/ t.pc = "dead"

\* C3: Play of a set-up stage returns nil iff no player returned an error
\* from Play; otherwise it returns an ErrPlay whose map has exactly the names
\* of the failing players, each with the error that player returned.  A
\* player whose Play panicked has returned no error and is under no name of
\* the map.
C3_PlayAggregates ==
  \A s \in Stages :
    AtReturn(s, "play") =>
      /\ beenSetup[s]
      /\ \A n \in RegNames(s) :
           /\ Over(fr[s].task[n])
           /\ fr[s].task[n].pc = "dead" =>
                fr[s].task[n].e = Nil /\ fr[s].task[n].player \in Stages
           /\ fr[s].task[n].player = players[s][n]
           /\ fr[s].task[n].player \in Leaves =>
                fr[s].task[n].e \in LeafRet(players[s][n], "play")
      /\ (fr[s].ret = Nil) <=> (FailedPlay(s) = {})
      /\ FailedPlay(s) # {} =>
           fr[s].ret = ErrPlay([n \in FailedPlay(s) |-> fr[s].task[n].e])

\* Play returns with three players of which two failed.
C3_Witness ==
  /\ AtReturn(Root, "play")
  /\ Cardinality(RegNames(Root)) = 3
  /\ Cardinality(FailedPlay(Root)) = 2

\* The number of goroutines of Play that are in the Play of leaf p.
InPlay(p) ==
  Cardinality({x \in Stages \X Names :
                 /\ fr[x[1]].op = "play" /\ x[2] \in DOMAIN fr[x[1]].task
                 /\ fr[x[1]].task[x[2]].pc = "play"
                 /\ fr[x[1]].task[x[2]].player = p})

\* The number of times the Play of Root in progress has to invoke the Play
\* of p: once for each entry of Root, and once for each entry of the nested
\* stage unless the nested stage's Play panicked.
DuePlay(p) ==
  Held(Root, Names, p) +
    (IF p = Sub THEN 0
     ELSE Cardinality({n \in RegNames(Root) :
                         /\ players[Root][n] = Sub
                         /\ fr[Root].task[n].pc = "done"}) * Held(Sub, Names, p))

\* C4: Play does not return while a player's Play it started is running: at
\* its return every one of its goroutines is over (its player's Play has
\* returned, or has panicked and started no player), and every Play of a
\* leaf that is in progress belongs to a goroutine that is still waiting for
\* it, whether or not the context was cancelled and whether or not some
\* players failed.
C4_PlayWaitsForAll ==
  /\ \A s \in Stages :
       (fr[s].op = "play" /\ fr[s].pc \in {"collect", "return"}) =>
         \A n \in RegNames(s) :
           /\ Over(fr[s].task[n])
           /\ fr[s].task[n].pc = "dead" =>
                /\ fr[s].task[n].player \in Stages
                /\ ~beenSetup[fr[s].task[n].player]
  /\ \A p \in Leaves : running[p]["play"] = InPlay(p)
  /\ AtReturn(Root, "play") =>
       \A p \in Players : calls[p]["play"] = DuePlay(p) /\ Finished(p, "play")

\* Play returns after a cancellation, with a player that failed and one that
\* did not.
C4_Witness ==
  /\ AtReturn(Root, "play")
  /\ cancelled
  /\ \E n, k \in RegNames(Root) :
       fr[Root].task[n].e # Nil /\ fr[Root].task[k].e = Nil

\* Setup was never called on s, or was called once and failed.
NotSetUp(s) == nSetup[s] = 0 \/ (nSetup[s] = 1 /\ phase[s] = "failed")

\* C5: Play on a stage whose Setup was never called, or whose only Setup
\* failed, panics: it returns nothing, starts no goroutine and invokes no
\* player's Play; a nested stage in that state has returned nothing from
\* Play to its parent, whatever the parent's Play does after the panic.
C5_PlayPanicsUnlessSetup ==
  /\ NotSetUp(Sub) => playRet[Sub] = NoCall
  /\ \A s \in Stages :
       (fr[s].op = "play" /\ NotSetUp(s)) =>
         /\ fr[s].pc = "panic"
         /\ fr[s].ret = NoCall
         /\ DOMAIN fr[s].task = {}
         /\ s = Root =>
              \A p \in Players : calls[p]["play"] = 0 /\ playRet[p] = NoCall

\* Play has panicked on a stage with players whose only Setup failed.
C5_Witness ==
  /\ fr[Root].pc = "panic"
  /\ nSetup[Root] = 1 /\ phase[Root] = "failed"
  /\ Registered(Root) # {}

\* C6: between the caller's calls, with every Add made before the first
\* Setup, beenSetup is true iff Setup has been called and every registered
\* player's Setup returned nil in the most recent Setup call.
C6_BeenSetupIffLastSetupOk ==
  (fr[Root].op = "idle" /\ ~lateAdd) =>
    (beenSetup[Root] <=>
       (nSetup[Root] > 0 /\ \A p \in Registered(Root) : setupRet[p] = Nil))

\* C7: Setup returns nil and marks the stage as set up iff every Setup it
\* invoked on a registered player returned nil; then the player of every
\* entry has had Setup invoked once for that entry and Setup has invoked no
\* Clean.  A first Setup that fails leaves the stage unmarked.
C7_SetupSucceedsIffAllNil ==
  AtReturn(Root, "setup") =>
    /\ (fr[Root].ret = Nil) <=>
         (\A p \in Registered(Root) : setupOk[p] = calls[p]["setup"])
    /\ fr[Root].ret = Nil =>
         /\ beenSetup[Root]
         /\ \A p \in Players :
              /\ calls[p]["setup"] = Due(p)
              /\ calls[p]["clean"] = 0
              /\ Finished(p, "setup")
    /\ (fr[Root].ret # Nil /\ nSetup[Root] = 1) => ~beenSetup[Root]

\* Setup returns nil on a stage of three players.
C7_Witness ==
  /\ AtReturn(Root, "setup") /\ fr[Root].ret = Nil
  /\ Cardinality(RegNames(Root)) = 3

\* C8: when Setup fails, the ErrSetup returned carries a registered name and
\* the error the player of that name returned from its Setup, and that is
\* the one Setup of this call that returned an error.
C8_SetupErrorNamesFailing ==
  (AtReturn(Root, "setup") /\ fr[Root].ret # Nil) =>
    /\ fr[Root].ret.type = "ErrSetup"
    /\ fr[Root].ret.Player \in RegNames(Root)
    /\ IsErr(fr[Root].ret.Err)
    /\ fr[Root].ret.Err = setupRet[players[Root][fr[Root].ret.Player]]
    /\ \A p \in Leaves :
         calls[p]["setup"] - setupOk[p] =
           IF players[Root][fr[Root].ret.Player] = p THEN 1 ELSE 0

\* Setup returns an ErrSetup naming the player visited last, after two
\* players were set up.
C8_Witness ==
  /\ AtReturn(Root, "setup") /\ fr[Root].ret # Nil
  /\ Cardinality(RegNames(Root)) = 3
  /\ Len(fr[Root].good) = 2

\* C9: Clean invokes Clean once for every entry of the stage, on that
\* entry's player, and returns only after all of these calls have completed,
\* whatever happened to the stage before.
C9_CleanCleansAll ==
  /\ \A s \in Stages :
       AtReturn(s, "clean") =>
         \A n \in RegNames(s) :
           /\ fr[s].task[n].pc = "done"
           /\ fr[s].task[n].player = players[s][n]
  /\ AtReturn(Root, "clean") =>
       \A p \in Players : calls[p]["clean"] = Due(p) /\ Finished(p, "clean")

\* Clean returns on a stage of two players that was set up and played.
C9_Witness ==
  /\ AtReturn(Root, "clean")
  /\ phase[Root] = "played"
  /\ Cardinality(RegNames(Root)) = 2

\* C10: when the nested stage is registered in Root and one of its players
\* fails Play, the nested stage returns an ErrPlay over its own names, and
\* Root's Play returns an ErrPlay that holds it under the nested stage's
\* registered name; every other key is the name of a failing leaf of Root
\* itself, so no name of a grandchild is a key on account of the grandchild.
C10_NestedErrUnderStageName ==
  /\ AtReturn(Sub, "play") =>
       /\ (fr[Sub].ret # Nil) <=> (FailedPlay(Sub) # {})
       /\ FailedPlay(Sub) # {} =>
            fr[Sub].ret = ErrPlay([k \in FailedPlay(Sub) |-> fr[Sub].task[k].e])
  /\ AtReturn(Root, "play") =>
       \A n \in RegNames(Root) :
         (players[Root][n] = Sub /\ IsErr(playRet[Sub])) =>
           /\ playRet[Sub].type = "ErrPlay"
           /\ fr[Root].ret # Nil
           /\ DOMAIN fr[Root].ret.Players \subseteq RegNames(Root)
           /\ n \in DOMAIN fr[Root].ret.Players
           /\ fr[Root].ret.Players[n] = playRet[Sub]
           /\ \A k \in DOMAIN fr[Root].ret.Players \ {n} :
                /\ players[Root][k] \in Leaves
                /\ fr[Root].ret.Players[k] = PlayerErr(players[Root][k], "play")

\* Root's Play returns with the nested stage under b, whose player c failed,
\* beside a leaf under a.
C10_Witness ==
  /\ AtReturn(Root, "play")
  /\ RegNames(Root) = {"a", "b"}
  /\ players[Root]["b"] = Sub
  /\ IsErr(playRet[Sub]) /\ "c" \in DOMAIN playRet[Sub].Players

\* C11: when Root's Setup returns an error, every Setup of a leaf of the
\* tree that returned nil during the call has been answered by exactly one
\* Clean of that leaf, completed, and a leaf whose Setup failed or was not
\* called has had no Clean on that account.
C11_NestedRollback ==
  (AtReturn(Root, "setup") /\ fr[Root].ret # Nil) =>
    \A p \in Leaves :
      /\ calls[p]["clean"] = setupOk[p]
      /\ Finished(p, "clean") /\ Finished(p, "setup")

\* Root's Setup fails on its leaf after the nested stage was set up with two
\* leaves, which the rollback has cleaned.
C11_Witness ==
  /\ AtReturn(Root, "setup") /\ fr[Root].ret # Nil
  /\ Sub \in Registered(Root) /\ setupRet[Sub] = Nil
  /\ Cardinality(Registered(Sub)) = 2
  /\ \A p \in Registered(Sub) : setupOk[p] = 1 /\ calls[p]["clean"] = 1

\* C12: a player's life cycle is Setup, Play, Clean or Setup, Clean: Play is
\* never in progress on a player on which Clean has been invoked since its
\* Setup was last invoked.
C12_NoPlayAfterClean ==
  \A p \in Players : ~Finished(p, "play") => p \notin cleaned

\* C13: a second Add under a name replaces the first player: a player that
\* has lost its name to another and holds no other is registered nowhere,
\* and no Setup, Play or Clean of the stage invokes any of its methods.
C13_AddReplaces ==
  \A p \in replaced :
    /\ \A s \in Stages : p \notin Registered(s)
    /\ \A m \in Methods :
         /\ Finished(p, m)
         /\ fr[Root].op # "idle" => calls[p][m] = 0

\* The one name of Root was given to p1 and then to p2; Root has been set
\* up, played and cleaned, and p2 has had its Clean.
C13_Witness ==
  /\ RegNames(Root) = {"a"} /\ players[Root]["a"] = "p2"
  /\ "p1" \in replaced
  /\ AtReturn(Root, "clean") /\ phase[Root] = "played"
  /\ calls["p2"]["clean"] = 1

\* The leaves whose Setup is in progress.
InSetup == {p \in Leaves : running[p]["setup"] > 0}

\* C14: Setup is strictly sequential.  While Setup runs, at most one Setup
\* of a player is in progress and the player of every entry visited has had
\* Setup invoked once for it; from the first error on, no Setup is in
\* progress and no further entry is visited; and a rollback Clean is invoked
\* only once a Setup has failed and returned, on a player whose Setup
\* returned nil.
C14_SetupSequential ==
  fr[Root].op = "setup" =>
    /\ Cardinality(InSetup) <= 1
    /\ \A p \in Leaves :
         /\ running[p]["setup"] <= 1
         /\ calls[p]["setup"] = Held(Root, Names \ fr[Root].todo, p)
         /\ calls[p]["clean"] > 0 =>
              /\ fr[Root].err # Nil /\ InSetup = {}
              /\ calls[p]["clean"] <= setupOk[p]
    /\ fr[Root].err # Nil =>
         /\ InSetup = {}
         /\ fr[Root].pc \in {"after", "rbcall", "return"}
         /\ setupRet[players[Root][fr[Root].faulty]] = fr[Root].err

\* Of three players the first was set up, the second failed and the third
\* was not reached; the rollback's Clean of the first is in progress.
C14_Witness ==
  /\ fr[Root].op = "setup" /\ fr[Root].pc = "rbcall"
  /\ Cardinality(RegNames(Root)) = 3
  /\ Cardinality(fr[Root].todo) = 1
  /\ \E p \in Registered(Root) : ~Finished(p, "clean")

\* The goroutine of name n in the Play or Clean of s has invoked its player.
Started(s, n) == n \notin fr[s].todo /\ fr[s].task[n].pc \notin {"none", "new"}

\* C15: a Play on a stage that is set up invokes Play once for every entry,
\* on that entry's player, each with the context Play was given, and starts
\* each without waiting for a sibling: whatever the other players are doing,
\* the next goroutine can be created and a created goroutine can invoke its
\* player.
C15_PlayInvokesAllOnce ==
  (fr[Root].op = "play" /\ fr[Root].pc # "panic") =>
    /\ fr[Root].ctx # NoCtx
    /\ \A n \in RegNames(Root) :
         IF Started(Root, n)
         THEN /\ fr[Root].task[n].player = players[Root][n]
              /\ gotCtx[players[Root][n]] = fr[Root].ctx
         ELSE fr[Root].pc = "spawn"
    /\ \A p \in Leaves :
         calls[p]["play"] =
           Held(Root, {n \in RegNames(Root) : Started(Root, n)}, p)
    /\ (fr[Root].pc = "spawn" /\ fr[Root].todo # {}) => ENABLED PlaySpawn(Root)
    /\ \A n \in RegNames(Root) :
         (n \notin fr[Root].todo /\ fr[Root].task[n].pc = "new") =>
           ENABLED PlayTaskStart(Root, n)

\* Three players: one is still in its Play while the other two, started
\* beside it, are through.
C15_Witness ==
  /\ fr[Root].op = "play" /\ fr[Root].pc = "spawn"
  /\ Cardinality(Registered(Root)) = 3
  /\ \E n \in RegNames(Root) :
       /\ fr[Root].task[n].pc = "play"
       /\ \A k \in RegNames(Root) \ {n} : fr[Root].task[k].pc = "done"

\* A goroutine of Root's Play that has an error to report finds room in the
\* channel.
NoSenderBlocks ==
  fr[Root].op = "play" =>
    \A n \in DOMAIN fr[Root].task :
      MustSend(fr[Root].task[n]) =>
        ~fr[Root].closed /\ Len(fr[Root].echan) < fr[Root].cap

\* C16: under fair scheduling, with every player's Play returning, a Play
\* that has passed its beenSetup check reaches its return (with no players,
\* too), and no goroutine ever blocks on reporting its error.
C16_PlayReturns ==
  /\ []NoSenderBlocks
  /\ (fr[Root].op = "play" /\ fr[Root].pc = "spawn") ~> AtReturn(Root, "play")

\* Play returns with the errors of all three players, each of which was sent
\* through the channel.
C16_Witness ==
  /\ AtReturn(Root, "play") /\ fr[Root].ret # Nil
  /\ Cardinality(RegNames(Root)) = 3
  /\ Len(fr[Root].echan) = 3 /\ fr[Root].cap = 3

\* C17: beenSetup changes only in the step in which a Setup of that stage
\* succeeds, so not in a Play, a Clean, a failing Setup or an Add; once true
\* it is never false again; and no step of a Setup, Play or Clean changes
\* the players registered with a stage.
C17_BeenSetupOnlyBySetup ==
  [][/\ \A s \in Stages :
          /\ beenSetup[s] => beenSetup'[s]
          /\ beenSetup'[s] # beenSetup[s] =>
               /\ fr[s].op = "setup" /\ fr[s].pc # "return"
               /\ fr'[s].op = "setup" /\ fr'[s].pc = "return"
               /\ fr'[s].ret = Nil
     /\ (fr[Root].op # "idle" \/ fr'[Root].op # "idle") => players' = players
    ]_vars

\* A Setup of Root has failed on a stage that was set up before: the flag is
\* still set.
C17_Witness ==
  /\ AtReturn(Root, "setup") /\ fr[Root].ret # Nil
  /\ beenSetup[Root] /\ Registered(Root) # {}

\* C18: a nested stage driven through its parent alone, by the parent's one
\* Setup and then the parent's Play, never panics in Play: whenever the
\* nested stage's Play runs, it was invoked by the Play of its parent, which
\* is set up, and the nested stage's beenSetup is true.
C18_NestedPlayNeverPanics ==
  (fr[Sub].op = "play" /\ nSetup[Root] = 1 /\ nSetup[Sub] = 1) =>
    /\ beenSetup[Sub] /\ fr[Sub].pc # "panic"
    /\ fr[Root].op = "play" /\ beenSetup[Root]
    /\ Sub \in Registered(Root)

\* After the one Setup of Root, Root's Play has invoked the nested stage's
\* Play, which has started a leaf of its own.
C18_Witness ==
  /\ nSetup[Root] = 1 /\ nSetup[Sub] = 1
  /\ fr[Sub].op = "play" /\ fr[Sub].pc = "spawn"
  /\ \E p \in Registered(Sub) : ~Finished(p, "play")

\* The reports of the goroutines of s whose player returned an error.
Reports(s) ==
  {Report(n, fr[s].task[n]) : n \in {k \in RegNames(s) : fr[s].task[k].e # Nil}}

\* C19: in Play the channel is closed, and the map built, only after every
\* goroutine has finished: no goroutine sends on the closed channel, and
\* when the map is built the channel holds the error of every player that
\* failed, once.
C19_CloseAfterAllDone ==
  \A s \in Stages :
    (fr[s].op = "play" /\ fr[s].pc # "panic") =>
      /\ \A n \in RegNames(s) : fr[s].task[n].pc # "panic"
      /\ fr[s].closed <=> fr[s].pc \in {"collect", "return"}
      /\ fr[s].closed =>
           /\ \A n \in RegNames(s) : Over(fr[s].task[n])
           /\ {fr[s].echan[i] : i \in 1..Len(fr[s].echan)} = Reports(s)
           /\ Len(fr[s].echan) = Cardinality(Reports(s))

\* The channel has been closed holding the errors of two players, beside a
\* third player that returned nil.
C19_Witness ==
  /\ fr[Root].op = "play" /\ fr[Root].pc = "collect" /\ fr[Root].closed
  /\ Cardinality(RegNames(Root)) = 3
  /\ Len(fr[Root].echan) = 2

====
